---- MODULE Spec2Model ----
(***************************************************************************)
(* Model of libfprint/aeslib.c: the batched register writer                *)
(* (aes_write_regv, continue_write_regv, do_write_regv,                    *)
(* write_regv_trf_complete) driven by the asynchronous bulk transport, and *)
(* the image assembler aes_assemble_image.                                 *)
(***************************************************************************)
EXTENDS Integers, Sequences, FiniteSets, TLC

\* ------------------------------------------------------------------------
\* Bounds of the model
\* ------------------------------------------------------------------------

\* longest register array handed to aes_write_regv
MaxLen == 33

\* most barrier entries (register 0) in an array longer than ShortLen
MaxBarriers == 1

\* arrays up to this length carry barriers at every combination of positions
ShortLen == 6

\* widest image handed to aes_assemble_image
MaxWidth == 2

\* most row pairs of an image (height = 2 * pairs)
MaxRowPairs == 2

\* ------------------------------------------------------------------------
\* Program constants
\* ------------------------------------------------------------------------

MAX_REGWRITES_PER_REQUEST == 16

EIO == 5

EPROTO == 71

FP_URB_COMPLETED == "FP_URB_COMPLETED"

\* completion statuses the transport can report: ok, error, canceled
UrbStatuses == {FP_URB_COMPLETED, "FP_URB_ERROR", "FP_URB_CANCELLED"}

\* unsigned char store
U8(x) == x % 256

MIN(a, b) == IF a < b THEN a ELSE b

\* ------------------------------------------------------------------------
\* State
\* ------------------------------------------------------------------------

VARIABLES
  wdata,     \* struct write_regv_data of the session (live = allocated,
             \* returned = aes_write_regv has returned to its caller,
             \* reads = the indices of regs read so far)
  urbs,      \* every bulk transfer handed to the transport, in order
  calls,     \* every invocation of wdata->callback, in order
  image,     \* the first call of aes_assemble_image and its output
  image2     \* a second, independent call of aes_assemble_image

vars == <<wdata, urbs, calls, image, image2>>

\* the state before aes_write_regv has allocated a session
NoSession == [live |-> FALSE, num_regs |-> 0, regs |-> <<>>, offset |-> 0,
              returned |-> FALSE, reads |-> {}]

\* the state before aes_assemble_image has been called
NoImage == [called |-> FALSE, width |-> 0, height |-> 0, input |-> <<>>,
            output |-> <<>>, accesses |-> <<>>]

\* ------------------------------------------------------------------------
\* Inputs: the register arrays a driver passes
\* ------------------------------------------------------------------------

\* entry i (1-based) of an array: register 0 when it is a barrier
RegWrite(i, barrier) ==
  [reg   |-> IF barrier THEN 0 ELSE ((i - 1) % 255) + 1,
   value |-> U8(i * 37)]

RECURSIVE SubsetsUpTo(_, _)
SubsetsUpTo(S, k) ==
  IF k = 0 THEN {{}}
  ELSE LET T == SubsetsUpTo(S, k - 1)
       IN  T \cup {t \cup {x} : t \in T, x \in S}

BarrierSets(n) ==
  IF n <= ShortLen THEN SUBSET (1..n) ELSE SubsetsUpTo(1..n, MaxBarriers)

WriteSequences ==
  UNION {{[i \in 1..n |-> RegWrite(i, i \in B)] : B \in BarrierSets(n)} :
         n \in 0..MaxLen}

\* ------------------------------------------------------------------------
\* The transport
\* ------------------------------------------------------------------------

\* indices of the transfers submitted and not yet completed
InFlight(u) == {k \in 1..Len(u) : u[k].state = "inflight"}

\* ------------------------------------------------------------------------
\* The writer.  A handler is a function of the program state
\* st = [wdata, urbs, calls]; `accept' is the transport's answer to the
\* submission the handler makes, if it makes one.
\* ------------------------------------------------------------------------

\* wdata->callback(wdata->imgdev, status, wdata->user_data)
callback(st, status) ==
  [st EXCEPT !.calls = Append(@, [status    |-> status,
                                  inflight  |-> Cardinality(InFlight(st.urbs)),
                                  submitted |-> Len(st.urbs),
                                  returned  |-> st.wdata.returned])]

\* the packing loop of do_write_regv: entries offset .. offset+num-1
\* (PackRegs_fromzero: the loop run as "for (i = 0; i < num; i++)")
PackRegs_fromzero(regs, i, end) ==
  [j \in 1..(2 * (end - i)) |->
     IF j % 2 = 1 THEN regs[(j + 1) \div 2].reg ELSE regs[j \div 2].value]

RECURSIVE PackRegs(_, _, _)
PackRegs(regs, i, end) ==
  IF i < end
  THEN <<regs[i + 1].reg, regs[i + 1].value>> \o PackRegs(regs, i + 1, end)
  ELSE <<>>

\* num = upper_bound - offset + 1
\* (BatchNum_exclusive: upper_bound taken as exclusive)
BatchNum_exclusive(upper_bound, offset) == upper_bound - offset

BatchNum(upper_bound, offset) == upper_bound - offset + 1

\* the indices of regs the packing loop reads
PackReads(i, end) == i..(end - 1)

\* (do_write_regv_nofree: the g_free(data) of the rejected submission left
\*  out)
do_write_regv_nofree(st, upper_bound, accept) ==
  LET offset     == st.wdata.offset
      num        == BatchNum(upper_bound, offset)
      alloc_size == num * 2
      data       == PackRegs(st.wdata.regs, offset, offset + num)
      urb        == [data   |-> data,
                     length |-> alloc_size,
                     first  |-> offset,
                     state  |-> IF accept THEN "inflight" ELSE "rejected",
                     status |-> "none",
                     actual_length |-> 0,
                     frees  |-> 0]
  IN  [st |-> [st EXCEPT !.urbs = Append(@, urb),
                         !.wdata.reads = @ \cup PackReads(offset, offset + num)],
       r  |-> IF accept THEN 0 ELSE -EIO]

do_write_regv(st, upper_bound, accept) ==
  LET offset     == st.wdata.offset
      num        == BatchNum(upper_bound, offset)
      alloc_size == num * 2
      data       == PackRegs(st.wdata.regs, offset, offset + num)
      urb        == [data   |-> data,
                     length |-> alloc_size,
                     first  |-> offset,
                     state  |-> IF accept THEN "inflight" ELSE "rejected",
                     status |-> "none",
                     actual_length |-> 0,
                     frees  |-> IF accept THEN 0 ELSE 1]
  IN  [st |-> [st EXCEPT !.urbs = Append(@, urb),
                         !.wdata.reads = @ \cup PackReads(offset, offset + num)],
       r  |-> IF accept THEN 0 ELSE -EIO]

\* the loop "skip all zeros": the offset at which it leaves.  offset,
\* limit and upper_bound are unsigned int; all stay within 0 .. num_regs
\* (the scan never finds its zero at regs[offset], which the skip loop has
\* just seen to be non-zero), so no operation on them wraps
\* (SkipZeros_once: an "if" in place of the "while")
SkipZeros_once(regs, num_regs, offset) ==
  IF offset >= num_regs THEN offset
  ELSE IF regs[offset + 1].reg # 0 THEN offset
  ELSE offset + 1

RECURSIVE SkipZeros(_, _, _)
SkipZeros(regs, num_regs, offset) ==
  IF offset >= num_regs THEN offset
  ELSE IF regs[offset + 1].reg # 0 THEN offset
  ELSE SkipZeros(regs, num_regs, offset + 1)

\* the indices of regs the skip loop reads
RECURSIVE SkipReads(_, _, _)
SkipReads(regs, num_regs, offset) ==
  IF offset >= num_regs THEN {}
  ELSE {offset} \cup (IF regs[offset + 1].reg # 0 THEN {}
                      ELSE SkipReads(regs, num_regs, offset + 1))

\* limit = MIN(regs_remaining, MAX_REGWRITES_PER_REQUEST)
\* (BatchLimit_short: the limit one write too small)
BatchLimit_short(regs_remaining) ==
  MIN(regs_remaining, MAX_REGWRITES_PER_REQUEST - 1)

BatchLimit(regs_remaining) == MIN(regs_remaining, MAX_REGWRITES_PER_REQUEST)

\* the loop looking for "a zero dividing things up"
\* (ScanUpperBound_noscan: the loop left out)
ScanUpperBound_noscan(regs, i, upper_bound) == upper_bound

RECURSIVE ScanUpperBound(_, _, _)
ScanUpperBound(regs, i, upper_bound) ==
  IF i > upper_bound THEN upper_bound
  ELSE IF regs[i + 1].reg = 0 THEN i - 1
  ELSE ScanUpperBound(regs, i + 1, upper_bound)

\* the indices of regs the scan loop reads
RECURSIVE ScanReads(_, _, _)
ScanReads(regs, i, upper_bound) ==
  IF i > upper_bound THEN {}
  ELSE {i} \cup (IF regs[i + 1].reg = 0 THEN {}
                 ELSE ScanReads(regs, i + 1, upper_bound))

\* wdata->offset = upper_bound + 1
\* (NextOffset_skip: one entry too far)
NextOffset_skip(upper_bound) == upper_bound + 2

NextOffset(upper_bound) == upper_bound + 1

\* (continue_write_regv_storefirst: wdata->offset stored before the result
\*  of do_write_regv is tested)
continue_write_regv_storefirst(st, accept) ==
  LET regs     == st.wdata.regs
      num_regs == st.wdata.num_regs
      offset   == SkipZeros(regs, num_regs, st.wdata.offset)
      st0      == [st EXCEPT !.wdata.reads =
                     @ \cup SkipReads(regs, num_regs, st.wdata.offset)]
  IN  IF offset >= num_regs
      THEN callback(st0, 0)
      ELSE LET regs_remaining == num_regs - offset
               limit          == BatchLimit(regs_remaining)
               upper_bound    == ScanUpperBound(regs, offset,
                                                offset + limit - 1)
               st1            == [st0 EXCEPT
                                    !.wdata.offset = offset,
                                    !.wdata.reads =
                                      @ \cup ScanReads(regs, offset,
                                                       offset + limit - 1)]
               w              == do_write_regv(st1, upper_bound, accept)
               st2            == [w.st EXCEPT !.wdata.offset =
                                                NextOffset(upper_bound)]
           IN  IF w.r < 0
               THEN callback(st2, w.r)
               ELSE st2

continue_write_regv(st, accept) ==
  LET regs     == st.wdata.regs
      num_regs == st.wdata.num_regs
      offset   == SkipZeros(regs, num_regs, st.wdata.offset)
      st0      == [st EXCEPT !.wdata.reads =
                     @ \cup SkipReads(regs, num_regs, st.wdata.offset)]
  IN  IF offset >= num_regs
      THEN callback(st0, 0)
      ELSE LET regs_remaining == num_regs - offset
               limit          == BatchLimit(regs_remaining)
               upper_bound    == ScanUpperBound(regs, offset,
                                                offset + limit - 1)
               st1            == [st0 EXCEPT
                                    !.wdata.offset = offset,
                                    !.wdata.reads =
                                      @ \cup ScanReads(regs, offset,
                                                       offset + limit - 1)]
               w              == do_write_regv(st1, upper_bound, accept)
           IN  IF w.r < 0
               THEN callback(w.st, w.r)
               ELSE [w.st EXCEPT !.wdata.offset = NextOffset(upper_bound)]

\* g_free(data); libusb_urb_handle_free(urbh) for transfer k, whose
\* completion the transport has just reported
ReleaseUrb(st, k, status, actual_length) ==
  [st EXCEPT !.urbs[k].state = "done",
             !.urbs[k].status = status,
             !.urbs[k].actual_length = actual_length,
             !.urbs[k].frees = @ + 1]

\* the completion handler, and four slips of its if / else-if / else chain
\* (_noelse: the failure branch falls through into the continuation;
\*  _nolength: the length test left out; _lengthfirst: the length tested
\*  before the status; _silent: a length mismatch returns without callback)
write_regv_trf_complete_noelse(st, k, status, actual_length, accept) ==
  LET st1      == ReleaseUrb(st, k, status, actual_length)
      rqlength == st.urbs[k].length
  IN  IF status # FP_URB_COMPLETED
      THEN continue_write_regv(callback(st1, -EIO), accept)
      ELSE IF rqlength # actual_length THEN callback(st1, -EPROTO)
      ELSE continue_write_regv(st1, accept)

write_regv_trf_complete_nolength(st, k, status, actual_length, accept) ==
  LET st1 == ReleaseUrb(st, k, status, actual_length)
  IN  IF status # FP_URB_COMPLETED THEN callback(st1, -EIO)
      ELSE continue_write_regv(st1, accept)

write_regv_trf_complete_lengthfirst(st, k, status, actual_length, accept) ==
  LET st1      == ReleaseUrb(st, k, status, actual_length)
      rqlength == st.urbs[k].length
  IN  IF rqlength # actual_length THEN callback(st1, -EPROTO)
      ELSE IF status # FP_URB_COMPLETED THEN callback(st1, -EIO)
      ELSE continue_write_regv(st1, accept)

write_regv_trf_complete_silent(st, k, status, actual_length, accept) ==
  LET st1      == ReleaseUrb(st, k, status, actual_length)
      rqlength == st.urbs[k].length
  IN  IF status # FP_URB_COMPLETED THEN callback(st1, -EIO)
      ELSE IF rqlength # actual_length THEN st1
      ELSE continue_write_regv(st1, accept)

write_regv_trf_complete(st, k, status, actual_length, accept) ==
  LET st1      == ReleaseUrb(st, k, status, actual_length)
      rqlength == st.urbs[k].length
  IN  IF status # FP_URB_COMPLETED THEN callback(st1, -EIO)
      ELSE IF rqlength # actual_length THEN callback(st1, -EPROTO)
      ELSE continue_write_regv(st1, accept)

\* the session allocated and filled in by aes_write_regv
NewSession(regs, num_regs) ==
  [live |-> TRUE, num_regs |-> num_regs, regs |-> regs, offset |-> 0,
   returned |-> FALSE, reads |-> {}]

\* (aes_write_regv_deferred: the continuation left to run after
\*  aes_write_regv has returned)
aes_write_regv_deferred(st, regs, num_regs, accept) ==
  continue_write_regv(
    [st EXCEPT !.wdata = [NewSession(regs, num_regs) EXCEPT
                            !.returned = TRUE]],
    accept)

aes_write_regv(st, regs, num_regs, accept) ==
  LET done == continue_write_regv(
                [st EXCEPT !.wdata = NewSession(regs, num_regs)], accept)
  IN  [done EXCEPT !.wdata.returned = TRUE]

\* ------------------------------------------------------------------------
\* The image assembler
\* ------------------------------------------------------------------------

\* the C operator & on non-negative ints
RECURSIVE BitAnd(_, _)
BitAnd(a, b) ==
  IF a = 0 \/ b = 0 THEN 0
  ELSE (a % 2) * (b % 2) + 2 * BitAnd(a \div 2, b \div 2)

\* the C operator >> on a non-negative int
RECURSIVE ShiftRight(_, _)
ShiftRight(a, n) == IF n = 0 THEN a ELSE ShiftRight(a \div 2, n - 1)

\* (*input & 0x07) * 36, stored in an unsigned char
\* (LowSample_nibble: the mask 0x0f)
LowSample_nibble(b) == U8(BitAnd(b, 15) * 36)

LowSample(b) == U8(BitAnd(b, 7) * 36)

\* ((*input & 0x70) >> 4) * 36, stored in an unsigned char
\* (HighSample_nibble: the mask 0xf0; HighSample_noshift: the shift left
\*  out)
HighSample_nibble(b) == U8(ShiftRight(BitAnd(b, 240), 4) * 36)

HighSample_noshift(b) == U8(BitAnd(b, 112) * 36)

HighSample(b) == U8(ShiftRight(BitAnd(b, 112), 4) * 36)

\* the index into output of the pixel at (row, column)
\* (OutIndex_transposed: row and column exchanged)
OutIndex_transposed(width, row, column) == width * column + row

OutIndex(width, row, column) == width * row + column

\* the two loops of aes_assemble_image from (column, row) on, `pos' being
\* the number of bytes input has advanced by; output maps each index of the
\* output buffer to the byte stored there (Unwritten before any store)
Unwritten == -1

RECURSIVE AssembleFrom(_, _, _, _, _, _, _)
AssembleFrom(input, width, height, column, row, pos, output) ==
  IF column >= width THEN output
  ELSE IF row >= height
  THEN AssembleFrom(input, width, height, column + 1, 0, pos, output)
  ELSE LET b  == input[pos + 1]
           o1 == [output EXCEPT ![OutIndex(width, row, column)] =
                                    LowSample(b)]
           o2 == [o1 EXCEPT ![OutIndex(width, row + 1, column)] =
                                HighSample(b)]
       IN  AssembleFrom(input, width, height, column, row + 2, pos + 1, o2)

aes_assemble_image(input, width, height) ==
  AssembleFrom(input, width, height, 0, 0, 0,
               [i \in 0..(width * height - 1) |-> Unwritten])

\* the memory accesses of the same two loops, in program order: each
\* iteration stores output[width * row + column], stores
\* output[width * (row + 1) + column] and advances input, all three reading
\* *input at the offset `pos'
RECURSIVE AssembleAccesses(_, _, _, _, _)
AssembleAccesses(width, height, column, row, pos) ==
  IF column >= width THEN <<>>
  ELSE IF row >= height
  THEN AssembleAccesses(width, height, column + 1, 0, pos)
  ELSE <<[op |-> "read",  index |-> pos],
         [op |-> "write", index |-> OutIndex(width, row, column)],
         [op |-> "write", index |-> OutIndex(width, row + 1, column)]>>
       \o AssembleAccesses(width, height, column, row + 2, pos + 1)

\* the raw sample buffers a driver passes: n bytes, the first any byte
\* value and each next one a fixed step further (mod 256), so that every
\* byte value occurs at every position; step 0x22 from 0x12 gives 0x34
RawSteps == {1, 34, 89}

RawBuffer(n, first, step) == [i \in 1..n |-> U8(first + (i - 1) * step)]

RawBuffers(n) ==
  {RawBuffer(n, first, step) : first \in 0..255, step \in RawSteps}

\* bitwise exclusive or of two non-negative ints
RECURSIVE BitXor(_, _)
BitXor(a, b) ==
  IF a = 0 /\ b = 0 THEN 0
  ELSE ((a + b) % 2) + 2 * BitXor(a \div 2, b \div 2)

\* the bits inverted in the second raw buffer: none, bit 3, bit 7, bits 3
\* and 7, bit 0, bit 4
ToggleMasks == {0, 8, 128, 136, 1, 16}

\* ------------------------------------------------------------------------
\* Actions
\* ------------------------------------------------------------------------

State == [wdata |-> wdata, urbs |-> urbs, calls |-> calls]

Becomes(st) ==
  /\ wdata' = st.wdata
  /\ urbs'  = st.urbs
  /\ calls' = st.calls

Init ==
  /\ wdata = NoSession
  /\ urbs  = <<>>
  /\ calls = <<>>
  /\ image = NoImage
  /\ image2 = NoImage

\* a driver starts the write of one register array
WriteRegv ==
  /\ ~wdata.live
  /\ \E regs \in WriteSequences, accept \in BOOLEAN :
       Becomes(aes_write_regv(State, regs, Len(regs), accept))
  /\ UNCHANGED <<image, image2>>

\* the transport reports the completion of a transfer it accepted
TrfComplete ==
  /\ \E k \in InFlight(urbs) :
       \E actual_length \in (urbs[k].length - 1)..urbs[k].length,
          status \in UrbStatuses, accept \in BOOLEAN :
         Becomes(write_regv_trf_complete(State, k, status, actual_length,
                                         accept))
  /\ UNCHANGED <<image, image2>>

Next == WriteRegv \/ TrfComplete

Spec == Init /\ [][Next]_vars

\* the transport delivers the completion of every transfer it accepted
LiveSpec == Spec /\ WF_vars(TrfComplete)

\* a driver assembles one frame of width x height pixels, height even
AssembleImage ==
  /\ ~image.called
  /\ \E width \in 0..MaxWidth, pairs \in 0..MaxRowPairs :
       \E input \in RawBuffers(width * pairs) :
         image' = [called |-> TRUE, width |-> width, height |-> 2 * pairs,
                   input  |-> input,
                   output |-> aes_assemble_image(input, width, 2 * pairs),
                   accesses |-> AssembleAccesses(width, 2 * pairs, 0, 0, 0)]
  /\ UNCHANGED <<wdata, urbs, calls, image2>>

\* the driver assembles a second frame of the same size, from a copy of
\* the first raw buffer in which the bits `mask' of every byte, or of every
\* other byte, are inverted
AssembleAgain ==
  /\ image.called
  /\ ~image2.called
  /\ \E mask \in ToggleMasks, stride \in 1..2 :
       LET input == [i \in 1..Len(image.input) |->
                      IF (i - 1) % stride = 0
                      THEN BitXor(image.input[i], mask)
                      ELSE image.input[i]]
       IN  image2' = [called |-> TRUE, width |-> image.width,
                      height |-> image.height,
                      input  |-> input,
                      output |-> aes_assemble_image(input, image.width,
                                                    image.height),
                      accesses |-> AssembleAccesses(image.width,
                                                    image.height, 0, 0, 0)]
  /\ UNCHANGED <<wdata, urbs, calls, image>>

ImageNext == AssembleImage \/ AssembleAgain

ImageSpec == Init /\ [][ImageNext]_vars

\* ------------------------------------------------------------------------
\* Vocabulary of the properties
\* ------------------------------------------------------------------------

\* the (register, value) bytes of a run of entries, in order
PairBytes(ws) ==
  [j \in 1..(2 * Len(ws)) |->
     IF j % 2 = 1 THEN ws[(j + 1) \div 2].reg ELSE ws[j \div 2].value]

IsWrite(e) == e.reg # 0

\* the entries of the array that are not barriers, in order
NonBarriers(regs) == SelectSeq(regs, IsWrite)

\* the payloads of the first k transfers handed to the transport, in order
RECURSIVE Payloads(_, _)
Payloads(u, k) == IF k = 0 THEN <<>> ELSE Payloads(u, k - 1) \o u[k].data

Started == wdata.live

HasBarrier == \E i \in 1..wdata.num_regs : wdata.regs[i].reg = 0

\* transfer k was accepted and has completed with full length
Succeeded(k) ==
  /\ urbs[k].state = "done"
  /\ urbs[k].status = FP_URB_COMPLETED
  /\ urbs[k].actual_length = urbs[k].length

\* transfer k has completed with status completed but another length
Mismatched(k) ==
  /\ urbs[k].state = "done"
  /\ urbs[k].status = FP_URB_COMPLETED
  /\ urbs[k].actual_length # urbs[k].length

\* the submission of transfer k was rejected, or it completed with a status
\* other than completed
TransportFailed(k) ==
  \/ urbs[k].state = "rejected"
  \/ urbs[k].state = "done" /\ urbs[k].status # FP_URB_COMPLETED

\* writes remain after the last transfer submitted
WritesRemain ==
  \E i \in (wdata.offset + 1)..wdata.num_regs : wdata.regs[i].reg # 0

Ceil(a, b) == (a + b - 1) \div b

\* ------------------------------------------------------------------------
\* Properties
\* ------------------------------------------------------------------------

\* C1: the completion callback is invoked at most once; at the moment it
\* is invoked no transfer of the session is in flight, and no transfer is
\* submitted after it.
C1_CallbackOnce ==
  /\ Len(calls) <= 1
  /\ \A i \in 1..Len(calls) :
       /\ calls[i].inflight = 0
       /\ calls[i].submitted = Len(urbs)
  /\ (calls # <<>> => InFlight(urbs) = {})

C1_Witness ==
  /\ Len(calls) = 1
  /\ Len(urbs) >= 2
  /\ calls[1].status = -EIO
  /\ WritesRemain

\* C2: when the callback is invoked with status 0, the payloads of all
\* transfers submitted, concatenated in submission order, are exactly the
\* (register, value) pairs of the array with the barrier entries removed,
\* and every transfer has completed with status completed and full length.
C2_SuccessPayload ==
  \A i \in 1..Len(calls) :
    calls[i].status = 0 =>
      /\ Payloads(urbs, Len(urbs)) = PairBytes(NonBarriers(wdata.regs))
      /\ \A k \in 1..Len(urbs) : Succeeded(k)

C2_Witness ==
  /\ Len(calls) = 1
  /\ calls[1].status = 0
  /\ Len(urbs) >= 3
  /\ HasBarrier

\* C3: every transfer submitted carries a contiguous run of entries of the
\* array, at least 1 and at most MAX_REGWRITES_PER_REQUEST of them, none of
\* which is a barrier.
C3_BatchShape ==
  \A k \in 1..Len(urbs) :
    LET n     == Len(urbs[k].data) \div 2
        first == urbs[k].first
    IN  /\ Len(urbs[k].data) = 2 * n
        /\ urbs[k].length = 2 * n
        /\ 1 <= n
        /\ n <= MAX_REGWRITES_PER_REQUEST
        /\ first + n <= wdata.num_regs
        /\ urbs[k].data = PairBytes(SubSeq(wdata.regs, first + 1, first + n))
        /\ \A j \in 1..n : urbs[k].data[2 * j - 1] # 0

C3_Witness ==
  /\ Len(urbs) >= 2
  /\ \E k \in 1..Len(urbs) :
       /\ Len(urbs[k].data) < 2 * MAX_REGWRITES_PER_REQUEST
       /\ urbs[k].first + Len(urbs[k].data) \div 2 < wdata.num_regs
       /\ wdata.regs[urbs[k].first + Len(urbs[k].data) \div 2 + 1].reg = 0
  /\ \E k \in 1..Len(urbs) :
       Len(urbs[k].data) = 2 * MAX_REGWRITES_PER_REQUEST

\* C4: if the completion of a transfer reports status completed and an
\* actual length different from the requested one, the callback is invoked
\* with -EPROTO and no further transfer is submitted.
C4_LengthMismatch ==
  \A k \in 1..Len(urbs) :
    Mismatched(k) =>
      /\ Len(calls) = 1
      /\ calls[1].status = -EPROTO
      /\ Len(urbs) = k

C4_Witness ==
  /\ Len(urbs) >= 2
  /\ Mismatched(Len(urbs))
  /\ WritesRemain

\* C5: a rejected submission, or a completion with a status other than
\* completed (whatever its actual length), makes the callback fire with
\* -EIO; the failed batch is not resubmitted and no later batch is
\* submitted.
C5_TransportFailure ==
  \A k \in 1..Len(urbs) :
    TransportFailed(k) =>
      /\ Len(calls) = 1
      /\ calls[1].status = -EIO
      /\ Len(urbs) = k

C5_Witness ==
  /\ Len(urbs) >= 2
  /\ urbs[Len(urbs)].state = "done"
  /\ urbs[Len(urbs)].status # FP_URB_COMPLETED
  /\ urbs[Len(urbs)].actual_length # urbs[Len(urbs)].length
  /\ WritesRemain

\* C6: provided the transport delivers the completion of every transfer
\* it accepted, a started operation eventually invokes the callback; it is
\* never left with no transfer in flight and no callback delivered, and it
\* submits no more transfers than the array has entries.
C6_EventuallyCalledBack ==
  /\ Started ~> (calls # <<>>)
  /\ [](Started /\ calls = <<>> => InFlight(urbs) # {})
  /\ [](Len(urbs) <= wdata.num_regs)

C6_Witness ==
  /\ Started
  /\ Len(calls) = 1
  /\ Len(urbs) >= 3
  /\ \A k \in 1..Len(urbs) : urbs[k].state = "done"

\* C7: an array with no non-barrier write (length 0 or barriers only)
\* makes the callback fire with status 0 and submits no transfer.
C7_NothingToWrite ==
  (Started /\ \A i \in 1..wdata.num_regs : wdata.regs[i].reg = 0) =>
    /\ Len(calls) = 1
    /\ calls[1].status = 0
    /\ urbs = <<>>

C7_Witness ==
  /\ Started
  /\ wdata.num_regs >= 3
  /\ \A i \in 1..wdata.num_regs : wdata.regs[i].reg = 0
  /\ Len(calls) = 1

\* C8 as stated: for an array with no barriers and length
\* n <= MAX_REGWRITES_PER_REQUEST exactly one transfer is submitted,
\* containing all n writes in order.
C8_SingleTransferAsStated ==
  (Started /\ ~HasBarrier /\ wdata.num_regs <= MAX_REGWRITES_PER_REQUEST) =>
    /\ Len(urbs) = 1
    /\ urbs[1].data = PairBytes(wdata.regs)

\* C8 as amended: for an array with no barriers and length
\* 1 <= n <= MAX_REGWRITES_PER_REQUEST exactly one transfer is handed to
\* the transport, containing all n writes in order.
C8_SingleTransfer ==
  (/\ Started
   /\ ~HasBarrier
   /\ 1 <= wdata.num_regs
   /\ wdata.num_regs <= MAX_REGWRITES_PER_REQUEST) =>
    /\ Len(urbs) = 1
    /\ urbs[1].data = PairBytes(wdata.regs)

C8_Witness ==
  /\ Started
  /\ ~HasBarrier
  /\ wdata.num_regs = MAX_REGWRITES_PER_REQUEST
  /\ Len(calls) = 1
  /\ calls[1].status = 0
  /\ Len(urbs) = 1

\* C9: for an array of length n > MAX_REGWRITES_PER_REQUEST with no
\* barriers, in a run where every transfer is accepted and completes with
\* full length, ceil(n / MAX_REGWRITES_PER_REQUEST) transfers are submitted,
\* each but possibly the last carries MAX_REGWRITES_PER_REQUEST writes, and
\* the transfers concatenated in order reproduce the array.
C9_Chunks ==
  (/\ Started
   /\ ~HasBarrier
   /\ wdata.num_regs > MAX_REGWRITES_PER_REQUEST
   /\ \A k \in 1..Len(urbs) : urbs[k].state = "inflight" \/ Succeeded(k)) =>
    LET total == Ceil(wdata.num_regs, MAX_REGWRITES_PER_REQUEST)
    IN  /\ Len(urbs) <= total
        /\ \A k \in 1..Len(urbs) :
             k < total =>
               Len(urbs[k].data) = 2 * MAX_REGWRITES_PER_REQUEST
        /\ (calls # <<>> =>
              /\ Len(urbs) = total
              /\ Payloads(urbs, Len(urbs)) = PairBytes(wdata.regs))

C9_Witness ==
  /\ Started
  /\ ~HasBarrier
  /\ wdata.num_regs = 2 * MAX_REGWRITES_PER_REQUEST + 1
  /\ Len(calls) = 1
  /\ calls[1].status = 0
  /\ Len(urbs) = 3
  /\ Len(urbs[3].data) = 2

\* C10: for every width and even height, every column c and even row r,
\* with b = raw[c * (height/2) + r/2]: out[width*r + c] = (b & 0x07) * 36
\* and out[width*(r+1) + c] = ((b & 0x70) >> 4) * 36; width 2, height 2,
\* raw [0x12, 0x34] gives [72, 144, 36, 108].
C10_Pixels ==
  image.called =>
    /\ \A c \in 0..(image.width - 1), p \in 0..(image.height \div 2 - 1) :
         LET r == 2 * p
             b == image.input[c * (image.height \div 2) + r \div 2 + 1]
         IN  /\ image.output[image.width * r + c] = (b % 8) * 36
             /\ image.output[image.width * (r + 1) + c]
                  = ((b \div 16) % 8) * 36
    /\ (image.width = 2 /\ image.height = 2 /\ image.input = <<18, 52>> =>
          /\ image.output[0] = 72
          /\ image.output[1] = 144
          /\ image.output[2] = 36
          /\ image.output[3] = 108)

C10_Witness ==
  /\ image.called
  /\ image.width = 2
  /\ image.height = 4
  /\ image.input = <<18, 52, 86, 120>>
  /\ image.output[1] = 6 * 36
  /\ image.output[7] = 7 * 36

\* the number of accesses of kind op to index i in a trace of accesses
AccessCount(trace, op, i) ==
  Cardinality({j \in 1..Len(trace) :
                 trace[j].op = op /\ trace[j].index = i})

UsedBits(b) == <<b % 8, (b \div 16) % 8>>

\* the two raw buffers agree on bits 0-2 and 4-6 of every byte
SameUsedBits ==
  /\ Len(image.input) = Len(image2.input)
  /\ \A i \in 1..Len(image.input) :
       UsedBits(image.input[i]) = UsedBits(image2.input[i])

\* C12: two runs of aes_assemble_image with the same width and height
\* whose raw buffers agree on bits 0-2 and 4-6 of every byte (identical
\* buffers, or buffers differing only in bits 3 and 7) give the same output.
C12_UnusedBits ==
  (/\ image.called
   /\ image2.called
   /\ image.width = image2.width
   /\ image.height = image2.height
   /\ SameUsedBits) =>
    image.output = image2.output

C12_Witness ==
  /\ image.called
  /\ image2.called
  /\ image.width = 2
  /\ image.height = 4
  /\ SameUsedBits
  /\ \A i \in 1..Len(image.input) :
       image2.input[i] = BitXor(image.input[i], 136)
  /\ image.output = image2.output

\* C20: every byte aes_assemble_image writes is one of 0, 36, 72, 108, 144,
\* 180, 216, 252: a 3-bit sample times 36 fits an 8-bit byte.
C20_EightLevels ==
  image.called =>
    \A i \in 0..(image.width * image.height - 1) :
      /\ image.output[i] \in {36 * v : v \in 0..7}
      /\ image.output[i] <= 255

C20_Witness ==
  /\ image.called
  /\ image.width = 2
  /\ image.height = 4
  /\ \E i \in 0..7 : image.output[i] = 252
  /\ \E i \in 0..7 : image.output[i] = 0

\* the number of writes transfer k carries
Writes(k) == Len(urbs[k].data) \div 2

\* transfer k has completed and reported a failure or a length mismatch
Failed(k) ==
  /\ urbs[k].state = "done"
  /\ \/ urbs[k].status # FP_URB_COMPLETED
     \/ urbs[k].actual_length # urbs[k].length

\* C13 as stated: aes_write_regv returns to its caller before the
\* completion callback is invoked, for every array.
C13_AlwaysAsynchronous ==
  \A i \in 1..Len(calls) : calls[i].returned

\* C13 as amended: the callback is invoked after aes_write_regv has
\* returned exactly when the first submission was accepted; for an array
\* with no write, and when the first submission is rejected, it is invoked
\* inside aes_write_regv.
C13_AsynchronousIfAccepted ==
  \A i \in 1..Len(calls) :
    calls[i].returned <=> (urbs # <<>> /\ urbs[1].state # "rejected")

C13_Witness ==
  /\ Len(calls) = 1
  /\ calls[1].returned
  /\ calls[1].status = 0
  /\ Len(urbs) >= 2

\* C14: 0 <= offset <= num_regs in every state of a session, and every
\* index of regs read by the skip loop, the scan loop or the packing loop is
\* less than num_regs.
C14_OffsetInRange ==
  Started =>
    /\ 0 <= wdata.offset
    /\ wdata.offset <= wdata.num_regs
    /\ \A i \in wdata.reads : 0 <= i /\ i < wdata.num_regs

C14_Witness ==
  /\ Started
  /\ wdata.num_regs = MaxLen
  /\ wdata.offset = wdata.num_regs
  /\ wdata.reads = 0..(wdata.num_regs - 1)
  /\ calls = <<>>

\* C15 as stated: while the transfer of a batch is in flight, and after a
\* completion that reports failure or a length mismatch, the cursor does
\* not point past that batch.
C15_AdvanceOnCompletion ==
  \A k \in 1..Len(urbs) :
    (urbs[k].state = "inflight" \/ Failed(k)) =>
      wdata.offset < urbs[k].first + Writes(k)

\* C15 as amended: the cursor is advanced past a batch when the submission
\* of its transfer is accepted: while the transfer is in flight, and after
\* any completion of it, the cursor points just past the batch; after a
\* rejected submission it points at the start of the batch.
C15_AdvanceOnSubmission ==
  urbs # <<>> =>
    LET k == Len(urbs)
    IN  IF urbs[k].state = "rejected"
        THEN wdata.offset = urbs[k].first
        ELSE wdata.offset = urbs[k].first + Writes(k)

C15_Witness ==
  /\ Len(urbs) >= 2
  /\ Failed(Len(urbs))
  /\ wdata.offset = urbs[Len(urbs)].first + Writes(Len(urbs))
  /\ WritesRemain

\* C16: at most one transfer is in flight at any time, a step submits at
\* most one new transfer, and a transfer is submitted only after every
\* earlier one has completed with status completed and full length, each
\* batch lying after the previous one in the array.
C16_OneInFlight ==
  /\ [](/\ Cardinality(InFlight(urbs)) <= 1
        /\ \A k \in 1..(Len(urbs) - 1) :
             /\ Succeeded(k)
             /\ urbs[k].first + Writes(k) <= urbs[k + 1].first)
  /\ [][Len(urbs') <= Len(urbs) + 1]_vars

C16_Witness ==
  /\ Len(urbs) = 3
  /\ InFlight(urbs) = {3}
  /\ Succeeded(1)
  /\ Succeeded(2)

\* the transfers a fully successful run needs: ceil(run length /
\* MAX_REGWRITES_PER_REQUEST) summed over the maximal barrier-free runs of
\* regs from entry i on, `run' writes of the current run being behind i
RECURSIVE RunTransfers(_, _, _)
RunTransfers(regs, i, run) ==
  IF i > Len(regs) THEN Ceil(run, MAX_REGWRITES_PER_REQUEST)
  ELSE IF regs[i].reg = 0
  THEN Ceil(run, MAX_REGWRITES_PER_REQUEST) + RunTransfers(regs, i + 1, 0)
  ELSE RunTransfers(regs, i + 1, run + 1)

\* C17: a transfer carries fewer than MAX_REGWRITES_PER_REQUEST writes only
\* if its last write is followed by a barrier or by the end of the array;
\* a fully successful run submits the sum over the maximal barrier-free
\* runs of ceil(run length / MAX_REGWRITES_PER_REQUEST) transfers.
C17_MaximalBatches ==
  /\ \A k \in 1..Len(urbs) :
       Writes(k) < MAX_REGWRITES_PER_REQUEST =>
         LET after == urbs[k].first + Writes(k)
         IN  \/ after = wdata.num_regs
             \/ after < wdata.num_regs /\ wdata.regs[after + 1].reg = 0
  /\ \A i \in 1..Len(calls) :
       calls[i].status = 0 => Len(urbs) = RunTransfers(wdata.regs, 1, 0)

C17_Witness ==
  /\ Len(calls) = 1
  /\ calls[1].status = 0
  /\ wdata.num_regs = MaxLen
  /\ wdata.regs[1].reg # 0
  /\ wdata.regs[MaxLen].reg # 0
  /\ HasBarrier
  /\ Len(urbs) = 3
  /\ Writes(1) = MAX_REGWRITES_PER_REQUEST
  /\ Writes(2) < MAX_REGWRITES_PER_REQUEST
  /\ Writes(3) < MAX_REGWRITES_PER_REQUEST

\* C18: once the completion callback has been invoked, the session
\* allocated by aes_write_regv is no longer allocated.
C18_SessionFreed ==
  calls # <<>> => ~wdata.live

\* C19 as stated: every transfer buffer is freed exactly once, on the
\* completion of the submission it backs and on no other path, and none
\* remains allocated once the callback has been invoked.
C19_FreedOnCompletionOnly ==
  /\ \A k \in 1..Len(urbs) :
       urbs[k].frees = (IF urbs[k].state = "done" THEN 1 ELSE 0)
  /\ (calls # <<>> => \A k \in 1..Len(urbs) : urbs[k].frees = 1)

\* C19 as amended: every transfer buffer is freed exactly once, on the
\* completion of its submission when the transport accepted it and in
\* do_write_regv when the transport rejected it; none is freed twice and
\* none remains allocated once the callback has been invoked.
C19_FreedOnce ==
  /\ \A k \in 1..Len(urbs) :
       urbs[k].frees = (IF urbs[k].state = "inflight" THEN 0 ELSE 1)
  /\ (calls # <<>> => \A k \in 1..Len(urbs) : urbs[k].frees = 1)

C19_Witness ==
  /\ calls # <<>>
  /\ Len(urbs) >= 2
  /\ urbs[Len(urbs)].state = "rejected"
  /\ \A k \in 1..Len(urbs) : urbs[k].frees = 1

====
